---- MODULE Spec2Model ----
(***************************************************************************)
(* GrokWebSocketClient (websocket-client.js): the audio hold buffer and    *)
(* vision-trigger arbitration, the playback queue, the vision query and    *)
(* the connection life cycle, as one state machine.  One action per        *)
(* message handler, timer callback or promise continuation.                *)
(*                                                                         *)
(* Handlers are written as operators from a client record to a client      *)
(* record, so that a handler that calls another one (a release that        *)
(* queues every held chunk, a flush inside a vision query) composes the    *)
(* way the JavaScript does.  St is the record of the current values of     *)
(* the variables and Set(s) assigns the record s to the primed variables.  *)
(***************************************************************************)
EXTENDS Integers, Sequences, FiniteSets, TLC

\* Bounds of the model.
MaxChunks == 2
MaxDeltas == 1
MaxVisionCalls == 2
MaxConnects == 1
MaxCaptures == 2
MaxSamples == 3
MaxCalls == 2

\* this.SAMPLE_RATE.
SAMPLE_RATE == 24000

(***************************************************************************)
(* Text.  A string is a sequence of one-character strings.                 *)
(***************************************************************************)
UpperCase ==
  <<"A","B","C","D","E","F","G","H","I","J","K","L","M",
    "N","O","P","Q","R","S","T","U","V","W","X","Y","Z">>

LowerCase ==
  <<"a","b","c","d","e","f","g","h","i","j","k","l","m",
    "n","o","p","q","r","s","t","u","v","w","x","y","z">>

\* String.prototype.toLowerCase, on the characters the transcripts use.
toLowerCase(text) ==
  [i \in 1..Len(text) |->
     IF \E k \in 1..Len(UpperCase) : UpperCase[k] = text[i]
     THEN LowerCase[CHOOSE k \in 1..Len(UpperCase) : UpperCase[k] = text[i]]
     ELSE text[i]]

\* String.prototype.includes: t occurs in s as a contiguous substring.
includes(s, t) ==
  \E i \in 0..(Len(s) - Len(t)) : SubSeq(s, i + 1, i + Len(t)) = t

\* this.visionTriggers, in the order of the source.
visionTriggers ==
  << <<"w","h","a","t"," ","a","m"," ","i"," ","h","o","l","d","i","n","g">>,
     <<"w","h","a","t","'","m"," ","i"," ","h","o","l","d","i","n","g">>,
     <<"l","o","o","k"," ","a","t"," ","t","h","i","s">>,
     <<"l","o","o","k"," ","a","t"," ","t","h","a","t">>,
     <<"w","h","a","t"," ","i","s"," ","t","h","i","s">>,
     <<"w","h","a","t","'","s"," ","t","h","i","s">>,
     <<"w","h","a","t"," ","i","s"," ","t","h","a","t">>,
     <<"w","h","a","t","'","s"," ","t","h","a","t">>,
     <<"w","h","a","t"," ","d","o"," ","y","o","u"," ","s","e","e">>,
     <<"c","a","n"," ","y","o","u"," ","s","e","e">>,
     <<"s","e","e"," ","w","h","a","t"," ","i">>,
     <<"s","e","e"," ","t","h","i","s">>,
     <<"w","h","a","t"," ","d","o"," ","i"," ","h","a","v","e">>,
     <<"w","h","a","t","'","s"," ","i","n"," ","m","y"," ","h","a","n","d">>,
     <<"w","h","a","t"," ","c","o","l","o","r"," ","i","s">>,
     <<"d","e","s","c","r","i","b","e"," ","w","h","a","t">>,
     <<"t","a","k","e"," ","a"," ","l","o","o","k">>,
     <<"c","h","e","c","k"," ","t","h","i","s"," ","o","u","t">>,
     <<"w","h","a","t"," ","a","r","e"," ","t","h","e","s","e">>,
     <<"s","h","o","w"," ","y","o","u">>,
     <<"i","'","m"," ","s","h","o","w","i","n","g"," ","y","o","u">>,
     <<"i"," ","a","m"," ","s","h","o","w","i","n","g"," ","y","o","u">>,
     <<"d","o"," ","y","o","u"," ","s","e","e">>,
     <<"l","o","o","k"," ","h","e","r","e">> >>

containsVisionTrigger(text) ==
  LET lower == toLowerCase(text)
  IN  \E k \in 1..Len(visionTriggers) : includes(lower, visionTriggers[k])

\* The user transcripts the transport delivers (message.transcript): the
\* empty string, a trigger phrase in mixed case, and two without a trigger.
Transcripts ==
  << <<>>,
     <<"W","h","a","t"," ","d","o"," ","y","o","u"," ","S","E","E","?">>,
     <<"t","h","a","t","'","s"," ","a"," ","g","r","e","a","t"," ","q","u","e","s","t","i","o","n">>,
     <<"L","O","O","K"," ","A","T">> >>

TranscriptIds == 1..Len(Transcripts)

\* containsVisionTrigger(transcript) for each transcript delivered, computed
\* once.
hasTrigger == [t \in TranscriptIds |-> containsVisionTrigger(Transcripts[t])]

(***************************************************************************)
(* State.  The fields of the GrokWebSocketClient object keep their names.  *)
(*   ws               this.ws: "null", or the socket's readyState          *)
(*   playbackContext  "null", or the AudioContext's state                  *)
(*   _holdTimeout     TRUE while it refers to a timer that is pending      *)
(*   videoStream, videoElement   TRUE when the field is not null           *)
(* An audio chunk is its arrival number 1, 2, ...; a transcript delta is   *)
(* its arrival number; texts are sequences of delta numbers.               *)
(***************************************************************************)
VARIABLES
  ws, state, audioQueue, isPlaying, playbackContext,
  videoStream, videoElement, visionEnabled, visionPending, visionSuppressing,
  _holdingForTranscript, _heldAudioChunks, _heldTranscriptText, _holdTimeout,
  isSpeaking, currentTranscript,
  \* The platform: promises and callbacks that have not run yet.
  arrived,        \* number of audio chunks received so far
  deltas,         \* number of transcript deltas received so far
  blobReads,      \* pending blob.arrayBuffer() reads: [chunk, dest]
  resumeWaiters,  \* playNextAudio calls awaiting resume() of the live context
  closedWaiters,  \* playNextAudio calls awaiting resume() of a closed context
  sounding,       \* chunks whose source has started and not yet ended
  staleSources,   \* started sources of a context that was closed since
  vq,             \* sendVisionQuery calls suspended at an await: [pc, query]
  closePending,   \* a socket abandoned by disconnect() has not fired onclose
  unanswered,     \* vision.query messages the open socket has not answered
  connects,       \* number of connect() calls so far
  status,         \* the status the page shows (app.js updateStatus)
  capture,        \* the fields of audio capture, TRUE when not null
  micRequests,    \* startAudioCapture calls awaiting getUserMedia
  liveStreams,    \* microphone streams granted whose tracks are not stopped
  liveCameras,    \* camera streams granted whose tracks are not stopped
  holdTimers,     \* setTimeout callbacks of _startHoldingAudio still pending
  \* The vowel analyzer, called on its own.
  float32Array,   \* the sample buffer passed to analyzeVowelFromAudio
  sampleRate,     \* the sample rate passed with it
  vowelInfo,      \* what the latest call returned, "none" before any call
  firstInfo,      \* what the first call returned
  calls,          \* the number of calls so far
  \* Observations (no handler reads them).
  visionCalls,    \* number of sendVisionQuery calls so far
  hi,             \* the latest-arrived chunk appended to audioQueue so far
  fate,           \* what the arbiter decided for each chunk (see Fates)
  last            \* the handler that ran last, and what it did

vars ==
  << ws, state, audioQueue, isPlaying, playbackContext,
     videoStream, videoElement, visionEnabled, visionPending, visionSuppressing,
     _holdingForTranscript, _heldAudioChunks, _heldTranscriptText, _holdTimeout,
     isSpeaking, currentTranscript,
     arrived, deltas, blobReads, resumeWaiters, closedWaiters, sounding,
     staleSources, vq, closePending, unanswered, connects, status,
     capture, micRequests, liveStreams, liveCameras, holdTimers,
     float32Array, sampleRate, vowelInfo, firstInfo, calls,
     visionCalls, hi, fate, last >>

St ==
  [ ws |-> ws, state |-> state, audioQueue |-> audioQueue,
    isPlaying |-> isPlaying, playbackContext |-> playbackContext,
    videoStream |-> videoStream, videoElement |-> videoElement,
    visionEnabled |-> visionEnabled, visionPending |-> visionPending,
    visionSuppressing |-> visionSuppressing,
    _holdingForTranscript |-> _holdingForTranscript,
    _heldAudioChunks |-> _heldAudioChunks,
    _heldTranscriptText |-> _heldTranscriptText,
    _holdTimeout |-> _holdTimeout,
    isSpeaking |-> isSpeaking, currentTranscript |-> currentTranscript,
    arrived |-> arrived, deltas |-> deltas, blobReads |-> blobReads,
    resumeWaiters |-> resumeWaiters, closedWaiters |-> closedWaiters,
    sounding |-> sounding, staleSources |-> staleSources, vq |-> vq,
    closePending |-> closePending, unanswered |-> unanswered,
    connects |-> connects, status |-> status,
    capture |-> capture, micRequests |-> micRequests,
    liveStreams |-> liveStreams, liveCameras |-> liveCameras,
    holdTimers |-> holdTimers,
    visionCalls |-> visionCalls, hi |-> hi, fate |-> fate, last |-> last ]

Set(s) ==
  /\ ws' = s.ws /\ state' = s.state /\ audioQueue' = s.audioQueue
  /\ isPlaying' = s.isPlaying /\ playbackContext' = s.playbackContext
  /\ videoStream' = s.videoStream /\ videoElement' = s.videoElement
  /\ visionEnabled' = s.visionEnabled /\ visionPending' = s.visionPending
  /\ visionSuppressing' = s.visionSuppressing
  /\ _holdingForTranscript' = s._holdingForTranscript
  /\ _heldAudioChunks' = s._heldAudioChunks
  /\ _heldTranscriptText' = s._heldTranscriptText
  /\ _holdTimeout' = s._holdTimeout
  /\ isSpeaking' = s.isSpeaking /\ currentTranscript' = s.currentTranscript
  /\ arrived' = s.arrived /\ deltas' = s.deltas /\ blobReads' = s.blobReads
  /\ resumeWaiters' = s.resumeWaiters /\ closedWaiters' = s.closedWaiters
  /\ sounding' = s.sounding /\ staleSources' = s.staleSources /\ vq' = s.vq
  /\ closePending' = s.closePending /\ unanswered' = s.unanswered
  /\ connects' = s.connects /\ status' = s.status
  /\ capture' = s.capture /\ micRequests' = s.micRequests
  /\ liveStreams' = s.liveStreams /\ liveCameras' = s.liveCameras
  /\ holdTimers' = s.holdTimers
  /\ visionCalls' = s.visionCalls /\ hi' = s.hi
  /\ fate' = s.fate /\ last' = s.last

\* The record of the handler that ran last.  It describes one step only:
\* every handler starts from Other.
\*   op       the handler, "other" for those no property asks about
\*   active   the handler found what its name says (see each action)
\*   vr       how a sendVisionQuery call settled in it, or "none"
\*   app      the chunks it appended to audioQueue, in order of appending
\*   marks    the fates those chunks had
\*   inOrder  each chunk it appended had arrived after every chunk
\*            appended before it, in this step or earlier
\*   exp      for a handler that ends a hold: the chunks taken into that
\*            hold, in arrival order
\*   sent     the vision.query messages it sent: [image, query]
\*   said     it called onTranscript with an assistant transcript
\*   lip      what it reported to onVolumeChange for the assistant, in
\*            order: a chunk (the analysis of its samples) or 0 (the zero
\*            signal)
Other ==
  [ op |-> "other", active |-> FALSE, vr |-> "none", app |-> <<>>,
    marks |-> {}, inOrder |-> TRUE, exp |-> <<>>, sent |-> <<>>,
    said |-> FALSE, lip |-> <<>> ]

\* The arbiter's decision for a chunk that is still on its way (its blob
\* is being read, or it lies in the held buffer), by the flags when the
\* chunk arrived and by the way its hold ended:
\*   "none"       not on its way: not arrived, dropped, cleared, or
\*                appended to audioQueue
\*   "play"       arrived while neither holding nor suppressing
\*   "held"       arrived while holding, and the arbiter has held since
\*   "discarded"  arrived while holding; a user transcript with a trigger
\*                ended that hold
\*   "stale"      arrived while holding; a release or cleanup ended that hold
Fates == {"none", "play", "held", "discarded", "stale"}

Range(f) == { f[i] : i \in DOMAIN f }

\* The elements of a set of numbers, in increasing order.
RECURSIVE Sorted(_)
Sorted(S) ==
  IF S = {} THEN <<>>
  ELSE LET m == CHOOSE x \in S : \A y \in S : x <= y
       IN  <<m>> \o Sorted(S \ {m})

\* A chunk that is no longer on its way has no fate.
Forget(s) ==
  [s EXCEPT !.fate =
     [c \in DOMAIN @ |->
        IF \/ \E r \in s.blobReads : r.chunk = c
           \/ c \in Range(s._heldAudioChunks)
        THEN @[c] ELSE "none"]]

\* The record of a step keeps what the properties read of it: the handler
\* when it found what its name says (disconnect() always), the chunks
\* appended and expected of a handler that ended a hold, and of the fates
\* of the appended chunks those of a hold.  The lip-sync reports are read
\* of a handler's result only.
Noted(s) ==
  LET l     == s.last
      named == l.op = "disconnect" \/ l.active
      ends  == l.active /\ l.op \in {"user_transcript", "hold_timeout"}
  IN  [s EXCEPT
         !.last.op    = IF named THEN @ ELSE "other",
         !.last.app   = IF ends THEN @ ELSE <<>>,
         !.last.exp   = IF ends /\ l.op = "user_transcript" THEN @ ELSE <<>>,
         !.last.marks = @ \cap {"held", "discarded"},
         !.last.lip   = <<>>]

\* The variables of the analyzer, which no handler of the client assigns.
analyzerVars == << float32Array, sampleRate, vowelInfo, firstInfo, calls >>

\* The step to the client s, s evaluated once.
Do(s) ==
  /\ \E x \in {Forget(Noted(s))} : Set(x)
  /\ UNCHANGED analyzerVars


\* The state of a newly constructed AudioContext: running, or suspended
\* until resume() (the autoplay policy decides).
FreshContext == {"running", "suspended"}

\* The capture fields of a client that captures nothing.
NoCapture ==
  [ mediaStream |-> FALSE, audioContext |-> FALSE, sourceNode |-> FALSE,
    processorNode |-> FALSE, volumeCheckInterval |-> FALSE ]

\* The client after construction.
ClientInit ==
  /\ ws = "null" /\ state = "disconnected"
  /\ audioQueue = <<>> /\ isPlaying = FALSE /\ playbackContext = "null"
  /\ videoStream = FALSE /\ videoElement = FALSE /\ visionEnabled = FALSE
  /\ visionPending = FALSE /\ visionSuppressing = FALSE
  /\ _holdingForTranscript = FALSE /\ _heldAudioChunks = <<>>
  /\ _heldTranscriptText = <<>> /\ _holdTimeout = FALSE
  /\ isSpeaking = FALSE /\ currentTranscript = <<>>
  /\ arrived = 0 /\ deltas = 0 /\ blobReads = {}
  /\ resumeWaiters = 0 /\ closedWaiters = 0 /\ sounding = {}
  /\ staleSources = 0 /\ vq = <<>> /\ closePending = FALSE /\ unanswered = 0
  /\ connects = 0 /\ status = "disconnected"
  /\ capture = NoCapture /\ micRequests = 0 /\ liveStreams = 0
  /\ liveCameras = 0 /\ holdTimers = 0
  /\ visionCalls = 0 /\ hi = 0
  /\ fate = [c \in 1..MaxChunks |-> "none"]
  /\ last = Other

Init ==
  /\ ClientInit
  /\ float32Array = <<>> /\ sampleRate = SAMPLE_RATE
  /\ vowelInfo = "none" /\ firstInfo = "none" /\ calls = 0

(***************************************************************************)
(* The vowel analyzer.  A sample is a whole number of thousandths (500 is  *)
(* the Float32 0.5); a sum of squares is in millionths; energy,            *)
(* highFreqEnergy and intensity are in ten-thousandths, rounded down.      *)
(* NaN is the string "NaN": every comparison with it is false.             *)
(***************************************************************************)
\* The largest r with r * r <= x, for low * low <= x < high * high.
RECURSIVE SqrtBetween(_, _, _)
SqrtBetween(x, low, high) ==
  IF high - low <= 1 THEN low
  ELSE LET mid == (low + high) \div 2
       IN  IF mid * mid <= x THEN SqrtBetween(x, mid, high)
           ELSE SqrtBetween(x, low, mid)

\* Math.sqrt, rounded down.
sqrt(x) == SqrtBetween(x, 0, 46340)

\* Math.abs.
abs(x) == IF x < 0 THEN -x ELSE x

\* The sum of f[i] over i in from..to.
RECURSIVE SumOver(_, _, _)
SumOver(f, from, to) ==
  IF from > to THEN 0 ELSE f[from] + SumOver(f, from + 1, to)

analyzeVowelDefault(float32, rate) ==
  [ vowel |-> "a", intensity |-> 0 ]

\* analyzeVowelFromAudio(float32Array, sampleRate).  The loop runs over the
\* samples after the first (i = 1 .. numSamples - 1 of the source are the
\* indices 2 .. numSamples here).
analyzeVowelFromAudio(float32, rate) ==
  LET numSamples == Len(float32)
      idx == 2..numSamples
      zeroCrossings ==
        Cardinality({ i \in idx : (float32[i] >= 0) # (float32[i-1] >= 0) })
      sumSq   == SumOver([i \in idx |-> float32[i] * float32[i]], 2, numSamples)
      sumDiff == SumOver([i \in idx |->
                            abs(float32[i] - float32[i-1])
                              * abs(float32[i] - float32[i-1])],
                         2, numSamples)
  IN  IF numSamples = 0
      \* 0 / 0 is NaN: energy, highFreqEnergy and zcr are NaN, no comparison
      \* holds, the vowel stays 'a' and Math.min(1, NaN) is NaN.
      THEN [ vowel |-> "a", intensity |-> "NaN" ]
      ELSE
      LET energy         == sqrt((100 * sumSq) \div numSamples)
          highFreqEnergy == sqrt((100 * sumDiff) \div numSamples)
          \* zcr > p / 100 and zcr < p / 100
          zcrAbove(p)    == 100 * zeroCrossings > p * numSamples
          zcrBelow(p)    == 100 * zeroCrossings < p * numSamples
          \* hfRatio = highFreqEnergy / (energy + 0.001) against p / 100
          hfAbove(p)     == 100 * highFreqEnergy > p * (energy + 10)
          hfBelow(p)     == 100 * highFreqEnergy < p * (energy + 10)
          capped         == IF energy * 40 > 10000 THEN 10000 ELSE energy * 40
      IN  IF energy < 50
          THEN [ vowel |-> "null", intensity |-> 0 ]
          ELSE [ vowel |->
                   IF zcrAbove(40) /\ hfAbove(70) THEN "i"
                   ELSE IF zcrAbove(28) /\ hfAbove(50) THEN "e"
                   ELSE IF zcrBelow(13) /\ hfBelow(22) THEN "u"
                   ELSE IF zcrBelow(18) /\ hfBelow(30) THEN "o"
                   ELSE "a",
                 intensity |-> capped ]

(***************************************************************************)
(* Playback.                                                               *)
(***************************************************************************)
\* updateStatus of the page, called by both notifications below.
updateStatus(s, st) == [s EXCEPT !.status = st]

\* setSpeaking, with the page's onSpeakingChange for the assistant.
setSpeaking(s, speaking) ==
  updateStatus([s EXCEPT !.isSpeaking = speaking],
               IF speaking THEN "speaking" ELSE "connected")

\* setState, with the page's onStateChange.
setState(s, st) == updateStatus([s EXCEPT !.state = st], st)

\* AudioContext.close(): the context's started sources and the resume()
\* promises awaited on it now belong to a closed context.
closeContext(s) ==
  IF s.playbackContext = "null" THEN s
  ELSE [s EXCEPT !.playbackContext = "null",
                 !.staleSources = @ + Cardinality(s.sounding),
                 !.sounding = {},
                 !.closedWaiters = @ + s.resumeWaiters,
                 !.resumeWaiters = 0]

\* playNextAudio from the shift on: take the head of the queue and start a
\* source for it.  A shift of an empty queue, or a context that a flush has
\* set to null, raises inside the try; the catch calls playNextAudio again.
\* bad is the set of chunks whose bytes cannot be played (an odd byte
\* length, no samples): the Int16Array or createBuffer raises inside the try
\* as well.  A chunk that starts is reported to the lip-sync callback first.
RECURSIVE playNextAudioOf(_, _, _)
startSourceStopsOnError(s, fresh, bad) ==
  LET q  == s.audioQueue
      s1 == [s EXCEPT !.audioQueue = IF q = <<>> THEN <<>> ELSE Tail(q)]
  IN  IF q = <<>> \/ s.playbackContext = "null" THEN s1
      ELSE IF Head(q) \in bad THEN s1
      ELSE [s1 EXCEPT !.sounding = @ \cup {Head(q)},
                      !.last.lip = Append(@, Head(q))]

startSourceOf(s, fresh, bad) ==
  LET q  == s.audioQueue
      s1 == [s EXCEPT !.audioQueue = IF q = <<>> THEN <<>> ELSE Tail(q)]
  IN  IF q = <<>> \/ s.playbackContext = "null"
      THEN playNextAudioOf(s1, fresh, bad)
      ELSE IF Head(q) \in bad
      THEN playNextAudioOf(s1, fresh, bad)
      ELSE [s1 EXCEPT !.sounding = @ \cup {Head(q)},
                      !.last.lip = Append(@, Head(q))]

playNextAudioNoZero(s, fresh, bad) ==
  IF s.audioQueue = <<>>
  THEN [s EXCEPT !.isPlaying = FALSE]
  ELSE LET ctx == IF s.playbackContext = "null" THEN fresh
                  ELSE s.playbackContext
           s1  == [s EXCEPT !.isPlaying = TRUE, !.playbackContext = ctx]
       IN  IF ctx = "suspended"
           THEN [s1 EXCEPT !.resumeWaiters = @ + 1]
           ELSE startSourceOf(s1, fresh, bad)

\* playNextAudio up to its first suspension.  fresh is the state a context
\* constructed here starts in.  With an empty queue the zero signal is
\* reported at once (and again 100 and 200 ms later).
playNextAudioOf(s, fresh, bad) ==
  IF s.audioQueue = <<>>
  THEN [s EXCEPT !.isPlaying = FALSE, !.last.lip = Append(@, 0)]
  ELSE LET ctx == IF s.playbackContext = "null" THEN fresh
                  ELSE s.playbackContext
           s1  == [s EXCEPT !.isPlaying = TRUE, !.playbackContext = ctx]
       IN  IF ctx = "suspended"
           THEN [s1 EXCEPT !.resumeWaiters = @ + 1]
           ELSE startSourceOf(s1, fresh, bad)

\* The same when every chunk can be played.
startSource(s, fresh) == startSourceOf(s, fresh, {})

playNextAudio(s, fresh) == playNextAudioOf(s, fresh, {})

queueAudioPlaybackNoStart(s, chunk, fresh) ==
  [s EXCEPT !.audioQueue = Append(@, chunk),
            !.hi = IF chunk > @ THEN chunk ELSE @,
            !.last.app = Append(@, chunk),
            !.last.marks = @ \cup {s.fate[chunk]},
            !.last.inOrder = @ /\ chunk > s.hi]

\* The observations record the append.
queueAudioPlayback(s, chunk, fresh) ==
  LET s1 == [s EXCEPT !.audioQueue = Append(@, chunk),
                      !.hi = IF chunk > @ THEN chunk ELSE @,
                      !.last.app = Append(@, chunk),
                      !.last.marks = @ \cup {s.fate[chunk]},
                      !.last.inOrder = @ /\ chunk > s.hi]
  IN  IF ~s1.isPlaying THEN playNextAudio(s1, fresh) ELSE s1

flushAudioQueueLeavesPlaying(s) ==
  setSpeaking(closeContext([s EXCEPT !.currentTranscript = <<>>]), FALSE)

flushAudioQueue(s) ==
  setSpeaking(
    closeContext([s EXCEPT !.audioQueue = <<>>, !.isPlaying = FALSE,
                           !.currentTranscript = <<>>,
                           !.last.lip = Append(@, 0)]),
    FALSE)

\* stopAudioCapture(): each field that is set is released and set to null;
\* the tracks stopped are those of the stream mediaStream refers to.
stopAudioCapture(s) ==
  [s EXCEPT !.capture = NoCapture,
            !.liveStreams = IF s.capture.mediaStream THEN @ - 1 ELSE @]

\* startAudioCapture after getUserMedia has resolved.  The fields are
\* assigned in the order of the source, over whatever they held; through
\* gives how far the call gets before a constructor raises (the catch
\* reports and returns false, and releases nothing):
\*   1 mediaStream, 2 audioContext, 3 sourceNode, 4 processorNode,
\*   5 volumeCheckInterval (the call succeeds).
CaptureSteps == 1..5

onMicrophoneGranted(s, through) ==
  [s EXCEPT !.liveStreams = @ + 1,
            !.capture = [ mediaStream         |-> TRUE,
                          audioContext        |-> @.audioContext \/ through >= 2,
                          sourceNode          |-> @.sourceNode \/ through >= 3,
                          processorNode       |-> @.processorNode \/ through >= 4,
                          volumeCheckInterval |->
                            @.volumeCheckInterval \/ through >= 5 ]]

\* stopWebcam(): the tracks stopped are those of the stream videoStream
\* refers to.
stopWebcam(s) ==
  [s EXCEPT !.videoStream = FALSE, !.videoElement = FALSE,
            !.visionEnabled = FALSE,
            !.liveCameras = IF s.videoStream THEN @ - 1 ELSE @]

\* if (this._holdTimeout) { clearTimeout(this._holdTimeout); ... = null }
clearHoldTimeout(s) ==
  [s EXCEPT !._holdTimeout = FALSE,
            !.holdTimers = IF s._holdTimeout THEN @ - 1 ELSE @]

cleanupKeepsHoldTimer(s) ==
  LET s1 == closeContext(stopWebcam(stopAudioCapture(s)))
  IN  [s1 EXCEPT !.audioQueue = <<>>, !.isPlaying = FALSE,
                 !.isSpeaking = FALSE,
                 !.visionPending = FALSE, !.visionSuppressing = FALSE,
                 !._holdingForTranscript = FALSE,
                 !._heldAudioChunks = <<>>, !._heldTranscriptText = <<>>]

cleanup(s) ==
  LET s1 == clearHoldTimeout(closeContext(stopWebcam(stopAudioCapture(s))))
  IN  [s1 EXCEPT !.audioQueue = <<>>, !.isPlaying = FALSE,
                 !.isSpeaking = FALSE,
                 !.visionPending = FALSE, !.visionSuppressing = FALSE,
                 !._holdingForTranscript = FALSE,
                 !._heldAudioChunks = <<>>, !._heldTranscriptText = <<>>]

\* disconnect().  The socket it closes fires its onclose later; a
\* vision.query sent on it gets no answer.
disconnect(s) ==
  setState(
    cleanup([s EXCEPT !.ws = "null", !.unanswered = 0,
                      !.closePending = @ \/ s.ws \in {"CONNECTING", "OPEN"}]),
    "disconnected")

(***************************************************************************)
(* The hold buffer.                                                        *)
(***************************************************************************)
_startHoldingAudioKeepsTimer(s) ==
  [s EXCEPT !._holdingForTranscript = TRUE,
            !._heldAudioChunks = <<>>,
            !._heldTranscriptText = <<>>,
            !._holdTimeout = TRUE,
            !.holdTimers = @ + 1]

\* The timer armed before, if any, is cleared and a new one is set.
_startHoldingAudio(s) ==
  [clearHoldTimeout(s) EXCEPT
     !._holdingForTranscript = TRUE,
     !._heldAudioChunks = <<>>,
     !._heldTranscriptText = <<>>,
     !._holdTimeout = TRUE,
     !.holdTimers = @ + 1]

\* The loop of _releaseHeldAudio: for (const chunk of chunks) ...
RECURSIVE queueAll(_, _, _)
queueAll(s, chunks, fresh) ==
  IF chunks = <<>> THEN s
  ELSE queueAll(queueAudioPlayback(s, Head(chunks), fresh), Tail(chunks), fresh)

Reverse(q) == [i \in 1..Len(q) |-> q[Len(q) + 1 - i]]

_releaseHeldAudioReversed(s, fresh) ==
  LET chunks   == s._heldAudioChunks
      heldText == s._heldTranscriptText
      s1 == [clearHoldTimeout(s) EXCEPT
                      !._holdingForTranscript = FALSE,
                      !._heldAudioChunks = <<>>,
                      !._heldTranscriptText = <<>>]
      s2 == IF Len(chunks) > 0 THEN setSpeaking(s1, TRUE) ELSE s1
      s3 == IF heldText # <<>>
            THEN [s2 EXCEPT !.currentTranscript = heldText,
                            !.last.said = TRUE]
            ELSE s2
  IN  queueAll(s3, Reverse(chunks), fresh)

_releaseHeldAudio(s, fresh) ==
  LET chunks   == s._heldAudioChunks
      heldText == s._heldTranscriptText
      s1 == [clearHoldTimeout(s) EXCEPT
                      !._holdingForTranscript = FALSE,
                      !._heldAudioChunks = <<>>,
                      !._heldTranscriptText = <<>>]
      s2 == IF Len(chunks) > 0 THEN setSpeaking(s1, TRUE) ELSE s1
      s3 == IF heldText # <<>>
            THEN [s2 EXCEPT !.currentTranscript = heldText,
                            !.last.said = TRUE]
            ELSE s2
  IN  queueAll(s3, chunks, fresh)

\* The callback of the safety timer.
onHoldTimeout(s, fresh) ==
  IF s._holdingForTranscript THEN _releaseHeldAudio(s, fresh) ELSE s

(***************************************************************************)
(* The vision query.  sendVisionQuery is an async function: it runs to     *)
(* its first await inside the caller's handler, and each later stretch     *)
(* runs as a continuation of its own (GetUserMediaSettles,                 *)
(* VideoPlaySettles, WarmupElapses).  A call yields                        *)
(*   [st |-> the client afterwards,                                        *)
(*    r  |-> "true" | "false" (the promise's value), "throw" (it rejects), *)
(*           "await" (suspended)].                                         *)
(***************************************************************************)
\* What the canvas gives for a frame of an enabled camera: a JPEG, nothing
\* (an empty data URL), or an exception (no 2d context).
FrameOutcomes == {"jpeg", "null", "throw"}

captureFrame(s, frame) ==
  IF ~s.videoElement \/ ~s.visionEnabled THEN "null" ELSE frame

\* sendVisionQuery from captureFrame on.
dispatchVisionQuery(s, query, frame) ==
  LET got == captureFrame(s, frame)
  IN  IF got = "throw" THEN [st |-> s, r |-> "throw"]
      ELSE IF got = "null" THEN [st |-> s, r |-> "false"]
      ELSE LET s1 == flushAudioQueue([s EXCEPT !.visionPending = TRUE,
                                               !.visionSuppressing = TRUE])
           IN  IF s1.ws = "OPEN"
               THEN [st |-> [s1 EXCEPT !.last.sent =
                               Append(@, [image |-> got, query |-> query]),
                                       !.unanswered = @ + 1],
                     r  |-> "true"]
               ELSE [st |-> [s1 EXCEPT !.visionPending = FALSE],
                     r  |-> "false"]

sendVisionQuery(s, query, frame) ==
  LET s0 == [s EXCEPT !.visionCalls = @ + 1]
  IN  IF s0.visionPending THEN [st |-> s0, r |-> "false"]
      ELSE IF ~s0.visionEnabled
      THEN [st |-> [s0 EXCEPT !.vq = Append(@, [pc |-> "getUserMedia",
                                                query |-> query])],
            r  |-> "await"]
      ELSE dispatchVisionQuery(s0, query, frame)

onVisionQuerySettledKeepsSuppressing(res) ==
  IF res.r = "false"
  THEN [res.st EXCEPT !.visionPending = FALSE, !.last.vr = res.r]
  ELSE [res.st EXCEPT !.last.vr = res.r]

\* .then(success => { if (!success) { ... } }) of _onUserTranscriptReceived,
\* on a settled call; a rejected promise runs no handler.
\* last.vr records how the call settled.
onVisionQuerySettled(res) ==
  IF res.r = "false"
  THEN [res.st EXCEPT !.visionSuppressing = FALSE, !.visionPending = FALSE,
                      !.last.vr = res.r]
  ELSE [res.st EXCEPT !.last.vr = res.r]

_onUserTranscriptReceivedAnyTime(s, t, frame, fresh) ==
  LET s1 == clearHoldTimeout(s)
  IN  IF hasTrigger[t]
      THEN LET s2 == [s1 EXCEPT !._holdingForTranscript = FALSE,
                                !._heldAudioChunks = <<>>,
                                !._heldTranscriptText = <<>>,
                                !.currentTranscript = <<>>,
                                !.visionSuppressing = TRUE]
           IN  onVisionQuerySettled(
                 sendVisionQuery(flushAudioQueue(s2), t, frame))
      ELSE _releaseHeldAudio(s1, fresh)

_onUserTranscriptReceived(s, t, frame, fresh) ==
  IF ~s._holdingForTranscript THEN s
  ELSE LET s1 == clearHoldTimeout(s)
       IN  IF hasTrigger[t]
           THEN LET s2 == [s1 EXCEPT !._holdingForTranscript = FALSE,
                                     !._heldAudioChunks = <<>>,
                                     !._heldTranscriptText = <<>>,
                                     !.currentTranscript = <<>>,
                                     !.visionSuppressing = TRUE]
                IN  onVisionQuerySettled(
                      sendVisionQuery(flushAudioQueue(s2), t, frame))
           ELSE _releaseHeldAudio(s1, fresh)

\* The sequence q without its i-th element.
RemoveAt(q, i) == SubSeq(q, 1, i - 1) \o SubSeq(q, i + 1, Len(q))

(***************************************************************************)
(* handleMessage, one operator per branch.                                 *)
(***************************************************************************)
\* event.data instanceof Blob.  The bytes are read asynchronously in both
\* branches that keep the frame: blobReads holds the pending read.
onBinaryFrame(s, chunk) ==
  IF s.visionSuppressing THEN s
  ELSE IF s._holdingForTranscript
  THEN [s EXCEPT !.blobReads = @ \cup {[chunk |-> chunk, dest |-> "held"]}]
  ELSE [s EXCEPT !.blobReads = @ \cup {[chunk |-> chunk, dest |-> "play"]}]

\* The continuation of a blob read: the .then of the held branch, or the
\* rest of handleAudioBlob.
onBlobRead(s, r, fresh) ==
  LET s1 == [s EXCEPT !.blobReads = @ \ {r}]
  IN  IF r.dest = "held"
      THEN [s1 EXCEPT !._heldAudioChunks = Append(@, r.chunk)]
      ELSE queueAudioPlayback(s1, r.chunk, fresh)

onAudioDeltaIgnoresHold(s, chunk, fresh) ==
  IF s.visionSuppressing THEN s
  ELSE queueAudioPlayback(s, chunk, fresh)

\* case 'response.audio.delta', message.delta not empty.
onAudioDelta(s, chunk, fresh) ==
  IF s.visionSuppressing THEN s
  ELSE IF s._holdingForTranscript
  THEN [s EXCEPT !._heldAudioChunks = Append(@, chunk)]
  ELSE queueAudioPlayback(s, chunk, fresh)

\* case 'response.audio_transcript.delta', message.delta not empty.
onTranscriptDelta(s, d) ==
  IF s.visionSuppressing THEN s
  ELSE IF s._holdingForTranscript
  THEN [s EXCEPT !._heldTranscriptText = Append(@, d)]
  ELSE [s EXCEPT !.currentTranscript = Append(@, d), !.last.said = TRUE]

\* case 'response.audio_transcript.done'.
onTranscriptDone(s) ==
  IF s.visionSuppressing THEN [s EXCEPT !.currentTranscript = <<>>]
  ELSE IF s._holdingForTranscript THEN s
  ELSE [s EXCEPT !.currentTranscript = <<>>, !.last.said = TRUE]

onSpeechStartedResetsArbiter(s) ==
  IF s.isSpeaking \/ s.isPlaying \/ Len(s.audioQueue) > 0
  THEN [flushAudioQueue(clearHoldTimeout(s)) EXCEPT
          !.currentTranscript = <<>>,
          !._holdingForTranscript = FALSE,
          !._heldAudioChunks = <<>>, !._heldTranscriptText = <<>>]
  ELSE s

\* case 'input_audio_buffer.speech_started'.
onSpeechStarted(s) ==
  IF s.isSpeaking \/ s.isPlaying \/ Len(s.audioQueue) > 0
  THEN [flushAudioQueue(s) EXCEPT !.currentTranscript = <<>>]
  ELSE s

\* case 'input_audio_buffer.speech_stopped'.
onSpeechStopped(s) == _startHoldingAudio(s)

onResponseCreatedUngated(s) == setSpeaking(s, TRUE)

\* case 'response.created' and case 'response.done'.
onResponseCreated(s) ==
  IF s.visionSuppressing \/ s._holdingForTranscript THEN s
  ELSE setSpeaking(s, TRUE)

onResponseDone(s) ==
  IF s.visionSuppressing \/ s._holdingForTranscript THEN s
  ELSE setSpeaking(s, FALSE)

\* case 'conversation.item.input_audio_transcription.completed'.
onUserTranscript(s, t, frame, fresh) ==
  IF Transcripts[t] = <<>> THEN s
  ELSE _onUserTranscriptReceived(s, t, frame, fresh)

\* A malformed message, by what is wrong with it:
\*   "not_json"             the text is not JSON: JSON.parse raises
\*   "undecodable_delta"    response.audio.delta whose delta is not
\*                          base64: atob raises, in the holding branch and
\*                          in handleAudioDelta, before anything is stored
\*   "transcript_not_text"  input_audio_transcription.completed whose
\*                          transcript is not a string (a number, an
\*                          object): _onUserTranscriptReceived clears the
\*                          hold timer, then text.toLowerCase raises
\* The catch of handleMessage logs the exception.
MalformedKinds == {"not_json", "undecodable_delta", "transcript_not_text"}

onMalformedMessage(s, kind) ==
  IF kind = "transcript_not_text" /\ s._holdingForTranscript
  THEN clearHoldTimeout(s)
  ELSE s

\* case 'vision.response'.
onVisionResponse(s) ==
  stopWebcam([s EXCEPT !.visionSuppressing = FALSE, !.visionPending = FALSE])


(***************************************************************************)
(* What the observations record of a step.                                 *)
(***************************************************************************)
\* A chunk arrives in the state s.
ObsArrive(s, chunk) ==
  [s EXCEPT
     !.arrived = chunk,
     !.fate[chunk] = IF s.visionSuppressing THEN "none"
                     ELSE IF s._holdingForTranscript THEN "held"
                     ELSE "play"]

\* The hold that the chunks marked "held" belong to has ended.
ObsResolve(s, how) ==
  [s EXCEPT !.fate = [c \in DOMAIN @ |-> IF @[c] = "held" THEN how ELSE @[c]]]

\* The record of a handler that ends a hold of the state s0, or might.
LastOfHold(s0, op, act) ==
  [Other EXCEPT
     !.op = op, !.active = act,
     !.exp = IF act
             THEN Sorted({c \in DOMAIN s0.fate : s0.fate[c] = "held"})
             ELSE <<>>]

\* The state a context constructed in this step starts in (it is
\* constructed only when there is none).
FreshNow == IF playbackContext = "null" THEN FreshContext ELSE {"running"}

\* What captureFrame can give in this step.
FrameNow == IF videoElement /\ visionEnabled THEN FrameOutcomes ELSE {"null"}

(***************************************************************************)
(* Actions: inbound messages.  The socket delivers messages only while it  *)
(* is open.                                                                *)
(***************************************************************************)
BinaryFrame ==
  /\ ws = "OPEN" /\ arrived < MaxChunks
  /\ LET c  == arrived + 1
         s0 == ObsArrive([St EXCEPT !.last = Other], c)
     IN  Do(onBinaryFrame(s0, c))

ResponseAudioDelta ==
  /\ ws = "OPEN" /\ arrived < MaxChunks
  /\ \E fresh \in IF visionSuppressing \/ _holdingForTranscript
                   THEN {"running"} ELSE FreshNow :
       LET c  == arrived + 1
           s0 == ObsArrive([St EXCEPT !.last = Other], c)
       IN  Do(onAudioDelta(s0, c, fresh))

ResponseAudioTranscriptDelta ==
  /\ ws = "OPEN" /\ deltas < MaxDeltas
  /\ LET d  == deltas + 1
         s0 == [St EXCEPT !.last = Other, !.deltas = d]
     IN  Do(onTranscriptDelta(s0, d))

ResponseAudioTranscriptDone ==
  /\ ws = "OPEN"
  /\ Do(onTranscriptDone([St EXCEPT !.last = Other]))

\* last.active: audio was queued or playing when the event arrived.
SpeechStarted ==
  /\ ws = "OPEN"
  /\ LET s0 == [St EXCEPT !.last =
                  [Other EXCEPT !.op = "speech_started",
                                !.active = isPlaying \/ Len(audioQueue) > 0]]
     IN  Do(onSpeechStarted(s0))

SpeechStopped ==
  /\ ws = "OPEN"
  /\ Do(onSpeechStopped([St EXCEPT !.last = Other]))

ResponseCreated ==
  /\ ws = "OPEN"
  /\ Do(onResponseCreated([St EXCEPT !.last = Other]))

ResponseDone ==
  /\ ws = "OPEN"
  /\ Do(onResponseDone([St EXCEPT !.last = Other]))

\* last.active: the transcript resolved a hold; last.vr # "none": by a
\* trigger.
InputAudioTranscriptionCompleted ==
  /\ ws = "OPEN"
  /\ \E t \in TranscriptIds :
       LET text     == Transcripts[t]
           resolves == text # <<>> /\ _holdingForTranscript
           trigger  == resolves /\ hasTrigger[t]
           s0 == [St EXCEPT !.last =
                    LastOfHold(St, "user_transcript", resolves)]
       IN  /\ trigger => visionCalls < MaxVisionCalls
           \* Only a trigger captures a frame, only a release plays.
           /\ \E frame \in IF trigger THEN FrameNow ELSE {"null"},
                 fresh \in IF resolves /\ ~trigger THEN FreshNow
                           ELSE {"running"} :
                LET s1 == onUserTranscript(s0, t, frame, fresh)
                IN  Do(IF trigger THEN ObsResolve(s1, "discarded")
                       ELSE IF resolves THEN ObsResolve(s1, "stale")
                       ELSE s1)

\* The backend answers a vision.query it was sent, on the socket that sent it.
VisionResponse ==
  /\ ws = "OPEN" /\ unanswered > 0
  /\ Do(onVisionResponse([St EXCEPT !.last = Other, !.unanswered = @ - 1]))

\* case 'error': reported through onError, no field changes.
ErrorMessage ==
  /\ ws = "OPEN"
  /\ Do([St EXCEPT !.last = Other])

\* A message the client cannot parse or handle.
MalformedMessage ==
  /\ ws = "OPEN"
  /\ \E kind \in MalformedKinds :
       Do(onMalformedMessage([St EXCEPT !.last = Other], kind))

(***************************************************************************)
(* Actions: timers, promise continuations, media callbacks.                *)
(***************************************************************************)
\* The setTimeout callback of _startHoldingAudio.
\* last.active: the arbiter was holding when the timer fired.
\* The timer that fires is the one _holdTimeout refers to, or one that no
\* field refers to any more; it is no longer pending when its callback runs.
HoldTimeoutFires ==
  /\ holdTimers > 0
  /\ \E current \in IF holdTimers > 1 /\ _holdTimeout THEN BOOLEAN
                     ELSE {_holdTimeout},
        fresh \in IF _holdingForTranscript THEN FreshNow ELSE {"running"} :
       LET s0 == [St EXCEPT
                    !.holdTimers = @ - 1,
                    !._holdTimeout = @ /\ ~current,
                    !.last =
                      LastOfHold(St, "hold_timeout", _holdingForTranscript)]
       IN  Do(IF _holdingForTranscript
              THEN ObsResolve(onHoldTimeout(s0, fresh), "stale")
              ELSE onHoldTimeout(s0, fresh))

\* A blob.arrayBuffer() promise resolves.  Reads of different blobs are
\* independent: they may complete in any order.
BlobReadResolves ==
  \E r \in blobReads :
    \E fresh \in IF r.dest = "play" THEN FreshNow ELSE {"running"} :
      Do(onBlobRead([St EXCEPT !.last = Other], r, fresh))

\* resume() of the live context resolves; one awaiting playNextAudio goes on.
ResumeSettles ==
  /\ resumeWaiters > 0
  /\ LET s0 == [St EXCEPT !.last = Other,
                          !.playbackContext = "running",
                          !.resumeWaiters = @ - 1]
     IN  Do(startSource(s0, "running"))

\* resume() of a context closed meanwhile settles: it resolves and the
\* awaiting playNextAudio goes on, or it rejects and that call ends.
ClosedResumeSettles ==
  /\ closedWaiters > 0
  /\ \E ok \in BOOLEAN :
       \E fresh \in IF ok THEN FreshNow ELSE {"running"} :
         LET s0 == [St EXCEPT !.last = Other, !.closedWaiters = @ - 1]
         IN  Do(IF ok THEN startSource(s0, fresh) ELSE s0)

\* source.onended of a chunk of the live context.
SourceEnded ==
  \E c \in sounding :
    Do(playNextAudio([St EXCEPT !.last = Other, !.sounding = @ \ {c}],
                     "running"))

\* A source of a closed context: its onended may still be delivered, or not.
StaleSourceEnded ==
  /\ staleSources > 0
  /\ \E fires \in BOOLEAN :
       \E fresh \in IF fires THEN FreshNow ELSE {"running"} :
         LET s0 == [St EXCEPT !.last = Other, !.staleSources = @ - 1]
         IN  Do(IF fires THEN playNextAudio(s0, fresh) ELSE s0)

\* initWebcam: getUserMedia settles.
GetUserMediaSettles ==
  \E i \in 1..Len(vq), ok \in BOOLEAN :
    /\ vq[i].pc = "getUserMedia"
    /\ LET s0 == [St EXCEPT !.last = Other]
       IN  IF ok
           THEN Do([s0 EXCEPT !.videoStream = TRUE, !.videoElement = TRUE,
                              !.liveCameras = @ + 1,
                              !.vq[i].pc = "play"])
           ELSE Do(onVisionQuerySettled(
                     [st |-> [s0 EXCEPT !.vq = RemoveAt(@, i)],
                      r  |-> "false"]))

\* initWebcam: videoElement.play() settles.
VideoPlaySettles ==
  \E i \in 1..Len(vq), ok \in BOOLEAN :
    /\ vq[i].pc = "play"
    /\ LET s0 == [St EXCEPT !.last = Other]
       IN  IF ok
           THEN Do([s0 EXCEPT !.visionEnabled = TRUE, !.vq[i].pc = "warmup"])
           ELSE Do(onVisionQuerySettled(
                     [st |-> [s0 EXCEPT !.vq = RemoveAt(@, i)],
                      r  |-> "false"]))

\* sendVisionQuery: the 500 ms warm-up delay ends.
WarmupElapses ==
  \E i \in 1..Len(vq), frame \in FrameNow :
    /\ vq[i].pc = "warmup"
    /\ LET s0 == [St EXCEPT !.last = Other, !.vq = RemoveAt(@, i)]
       IN  Do(onVisionQuerySettled(
                dispatchVisionQuery(s0, vq[i].query, frame)))

(***************************************************************************)
(* Actions: the connection.                                                *)
(***************************************************************************)
\* connect(): it returns at once when the socket is open; otherwise it
\* notifies connecting and assigns a new socket to this.ws (connects counts
\* the sockets constructed).  A socket this.ws referred to is not closed.
connect(s) ==
  IF s.ws = "OPEN" THEN s
  ELSE [setState(s, "connecting") EXCEPT
          !.ws = "CONNECTING", !.connects = @ + 1]

\* The page calls connect() when no socket is connecting or open.
Connect ==
  /\ ws \in {"null", "CLOSED"} /\ connects < MaxConnects
  /\ Do(connect([St EXCEPT !.last = Other]))

WsOnOpen ==
  /\ ws = "CONNECTING"
  /\ Do([setState(St, "connected") EXCEPT !.ws = "OPEN", !.last = Other])

\* ws.onclose.
onclose(s) == cleanup(setState(s, "disconnected"))

\* The client's socket closes.  On a transport error the socket fires
\* error and then close in one task: ws.onerror reports through onError and
\* changes no field, and ws.onclose follows at once.  A vision.query sent
\* on the socket gets no answer.
WsOnClose ==
  /\ ws \in {"CONNECTING", "OPEN"}
  /\ LET s0 == [St EXCEPT !.ws = "CLOSED", !.unanswered = 0, !.last = Other]
     IN  Do(ObsResolve(onclose(s0), "stale"))

\* The client is busy: holding, suppressing, querying or playing.
Busy(s) ==
  \/ s._holdingForTranscript \/ s._holdTimeout
  \/ s.visionSuppressing \/ s.visionPending
  \/ s.isPlaying \/ s.audioQueue # <<>> \/ s._heldAudioChunks # <<>>

\* The host calls disconnect(), at most one abandoned socket at a time.
\* last.active: the client was busy.
Disconnect ==
  /\ ~closePending
  /\ LET s0 == [St EXCEPT !.last = [Other EXCEPT !.op = "disconnect",
                                                 !.active = Busy(St)]]
     IN  Do(ObsResolve(disconnect(s0), "stale"))

\* ws.onclose of a socket that disconnect() closed.
StaleOnClose ==
  /\ closePending
  /\ LET s0 == [St EXCEPT !.closePending = FALSE, !.last = Other]
     IN  Do(ObsResolve(onclose(s0), "stale"))

(***************************************************************************)
(* Actions: audio capture.                                                 *)
(***************************************************************************)
\* The page calls startAudioCapture() when connect() has resolved; the call
\* awaits getUserMedia.  The page allows a second call while the first is
\* under way (isSessionActive is set only when a call has succeeded).
StartAudioCapture ==
  /\ ws = "OPEN" /\ micRequests + liveStreams < MaxCaptures
  /\ Do([St EXCEPT !.micRequests = @ + 1, !.last = Other])

\* getUserMedia of startAudioCapture settles: it rejects, or it resolves
\* and the call goes on.
MicrophoneSettles ==
  /\ micRequests > 0
  /\ \E ok \in BOOLEAN, through \in CaptureSteps :
       LET s0 == [St EXCEPT !.micRequests = @ - 1, !.last = Other]
       IN  Do(IF ok THEN onMicrophoneGranted(s0, through) ELSE s0)

\* The host calls stopAudioCapture().
StopAudioCapture ==
  \E s0 \in {[St EXCEPT !.last = Other]} : Do(stopAudioCapture(s0))

Next ==
  \/ BinaryFrame \/ ResponseAudioDelta
  \/ ResponseAudioTranscriptDelta \/ ResponseAudioTranscriptDone
  \/ SpeechStarted \/ SpeechStopped \/ ResponseCreated \/ ResponseDone
  \/ InputAudioTranscriptionCompleted \/ VisionResponse \/ ErrorMessage
  \/ MalformedMessage
  \/ HoldTimeoutFires \/ BlobReadResolves
  \/ ResumeSettles \/ ClosedResumeSettles \/ SourceEnded \/ StaleSourceEnded
  \/ GetUserMediaSettles \/ VideoPlaySettles \/ WarmupElapses
  \/ Connect \/ WsOnOpen \/ WsOnClose \/ Disconnect \/ StaleOnClose

Spec == Init /\ [][Next]_vars

\* The session with audio capture: the page starts and stops capture, the
\* server sends audio as base64 deltas and the speech events, and there is
\* no vision query.
CaptureNext ==
  \/ StartAudioCapture \/ MicrophoneSettles \/ StopAudioCapture
  \/ ResponseAudioDelta \/ SpeechStarted \/ SpeechStopped
  \/ HoldTimeoutFires
  \/ ResumeSettles \/ ClosedResumeSettles \/ SourceEnded \/ StaleSourceEnded
  \/ Connect \/ WsOnOpen \/ WsOnClose \/ Disconnect \/ StaleOnClose

CaptureSpec == Init /\ [][CaptureNext]_vars

\* The analyzer on its own: a buffer of up to MaxSamples samples, silent,
\* below the silence threshold or loud, is analyzed MaxCalls times.
SampleValues == {-500, 0, 4, 500}

RECURSIVE Buffers(_)
Buffers(n) ==
  IF n = 0 THEN {<<>>}
  ELSE Buffers(n - 1) \cup
       { Append(b, v) : b \in { x \in Buffers(n - 1) : Len(x) = n - 1 },
                        v \in SampleValues }

SampleRates == {SAMPLE_RATE, 48000}

VowelInit ==
  /\ ClientInit
  /\ float32Array \in Buffers(MaxSamples) /\ sampleRate \in SampleRates
  /\ vowelInfo = "none" /\ firstInfo = "none" /\ calls = 0

AnalyzeVowel ==
  /\ calls < MaxCalls
  /\ \E info \in {analyzeVowelFromAudio(float32Array, sampleRate)} :
       /\ vowelInfo' = info
       /\ firstInfo' = IF calls = 0 THEN info ELSE firstInfo
  /\ calls' = calls + 1
  /\ UNCHANGED << float32Array, sampleRate >>
  /\ Set(St)

VowelSpec == VowelInit /\ [][AnalyzeVowel]_vars

\* The platform runs what it has scheduled: an armed timer fires, a pending
\* promise settles, a started source ends.  Nothing obliges the server or
\* the user to send a message, or the connection to change.
\* HoldTimeoutFires, BlobReadResolves and ResumeSettles are enabled exactly
\* when the timer is armed, a read is pending, a resume() is awaited, and
\* there are finitely many chunks: weak fairness of each says that its
\* guard is false again and again, and is written so.
FairSpec ==
  /\ Spec
  /\ []<>(holdTimers = 0) /\ []<>(blobReads = {}) /\ []<>(resumeWaiters = 0)
  /\ WF_vars(ClosedResumeSettles)
  /\ WF_vars(SourceEnded) /\ WF_vars(StaleSourceEnded)
  /\ WF_vars(GetUserMediaSettles) /\ WF_vars(VideoPlaySettles)
  /\ WF_vars(WarmupElapses)

(***************************************************************************)
(* Properties.                                                             *)
(***************************************************************************)
\* The handler that ran last ended a hold: through a user transcript
\* without a trigger, through one with a trigger, through the timer.
ReleasedByTranscript ==
  last.op = "user_transcript" /\ last.active /\ last.vr = "none"

DiscardedByTrigger ==
  last.op = "user_transcript" /\ last.active /\ last.vr # "none"

ReleasedByTimer == last.op = "hold_timeout" /\ last.active

\* The numbers of q increase.
Increasing(q) == \A i, j \in 1..Len(q) : i < j => q[i] < q[j]

\* C1: a chunk received while the arbiter holds is not appended to the
\* playback queue before that hold is resolved: only the handler that ends
\* the hold appends a chunk of it, and a chunk lying in the held buffer is
\* neither queued nor playing.
C1_HeldNotQueued ==
  /\ "held" \in last.marks =>
        /\ ReleasedByTranscript \/ ReleasedByTimer
        /\ ~_holdingForTranscript
  /\ \A i \in 1..Len(_heldAudioChunks) :
        /\ _heldAudioChunks[i] \notin Range(audioQueue)
        /\ _heldAudioChunks[i] \notin sounding

\* C1: the arbiter holds a chunk that arrived during this hold, while
\* another chunk plays.
C1_Witness ==
  /\ _holdingForTranscript
  /\ \E i \in 1..Len(_heldAudioChunks) : fate[_heldAudioChunks[i]] = "held"
  /\ sounding # {}

\* C2: a user transcript with a trigger phrase leaves the held buffer
\* empty and appends nothing to the playback queue, a vision query that was
\* sent carries a captured image and the transcript, and no chunk of the
\* discarded hold is ever appended to the playback queue.
C2_TriggerDiscards ==
  /\ DiscardedByTrigger => _heldAudioChunks = <<>> /\ last.app = <<>>
  /\ \A i \in 1..Len(last.sent) :
        last.sent[i].image = "jpeg" /\ hasTrigger[last.sent[i].query]
  /\ "discarded" \notin last.marks

\* C3: a user transcript without a trigger phrase appends to the playback
\* queue the chunks taken into the hold, each once, in arrival order.
C3_ReleaseInArrivalOrder ==
  ReleasedByTranscript => last.app = last.exp

C5_BargeInFlushes ==
  (last.op = "speech_started" /\ last.active) =>
    /\ audioQueue = <<>> /\ ~isPlaying
    /\ sounding = {} /\ playbackContext = "null"

\* C5: speech_started arrived while a chunk was playing, and stopped it.
C5_Witness ==
  last.op = "speech_started" /\ last.active /\ staleSources > 0

\* C6: the chunks appended to the playback queue are in arrival order: no
\* chunk is appended after a chunk that arrived later.
C6_DeliveredInArrivalOrder == last.inOrder

\* C7: a binary frame lies where the same chunk as a base64 delta would
\* lie: in the held buffer only if it arrived during the hold in progress,
\* and in the held buffer and in the playback queue in arrival order.
C7_BinaryAsBase64 ==
  /\ \A i \in 1..Len(_heldAudioChunks) :
        _holdingForTranscript /\ fate[_heldAudioChunks[i]] = "held"
  /\ Increasing(_heldAudioChunks)
  /\ Increasing(audioQueue)

\* C8: the arbiter is never holding and suppressing at once.
C8_NotHoldingAndSuppressing ==
  ~(_holdingForTranscript /\ visionSuppressing)

\* C9: the arbiter leaves every hold and every suppression it enters.
C9_EveryEntryExits ==
  /\ _holdingForTranscript ~> ~_holdingForTranscript
  /\ visionSuppressing ~> ~visionSuppressing

\* C10: when a sendVisionQuery call settles with false, the handler that
\* settled it leaves visionSuppressing and visionPending false, has sent
\* no vision.query, and has made no further sendVisionQuery call.
C10_FailedDispatchReturnsToIdle ==
  [][last'.vr = "false" =>
        /\ ~visionSuppressing' /\ ~visionPending'
        /\ last'.sent = <<>>
        /\ Len(vq') <= Len(vq)
        /\ visionCalls' =
             visionCalls + (IF last'.op = "user_transcript" THEN 1 ELSE 0)]_vars

\* C10: a triggered vision query failed to dispatch on an open socket.
C10_Witness ==
  last.vr = "false" /\ ws = "OPEN" /\ visionCalls > 0

\* An inbound event of the agent's reply: an audio chunk, a transcript
\* delta, transcript-done, response.created or response.done.
AgentEvent ==
  \/ BinaryFrame \/ ResponseAudioDelta
  \/ ResponseAudioTranscriptDelta \/ ResponseAudioTranscriptDone
  \/ ResponseCreated \/ ResponseDone

\* The handler of an agent event kept nothing of it: no chunk queued, held
\* or being read, no transcript shown or held, the speaking flag not raised.
Dropped ==
  /\ audioQueue' = audioQueue /\ sounding' = sounding
  /\ _heldAudioChunks' = _heldAudioChunks /\ blobReads' = blobReads
  /\ ~last'.said /\ _heldTranscriptText' = _heldTranscriptText
  /\ currentTranscript' \in {currentTranscript, <<>>}
  /\ isSpeaking' => isSpeaking

\* C11: the arbiter is suppressing for as long as a vision.query that was
\* sent is unanswered, and every agent event that arrives while it is
\* suppressing is dropped.
C11_SuppressedUntilAnswered ==
  [][/\ unanswered' > 0 => visionSuppressing'
     /\ (visionSuppressing /\ AgentEvent) => Dropped]_vars

\* C12: at most one vision.query that was sent is unanswered.
C12_OneQueryInFlight == unanswered <= 1

\* The client s is torn down: disconnected, neither holding nor
\* suppressing, no query pending, no hold timer, nothing queued, held or
\* playing.
TornDown(s) ==
  /\ s.state = "disconnected" /\ s.ws = "null"
  /\ ~s._holdingForTranscript /\ ~s.visionSuppressing /\ ~s.visionPending
  /\ ~s._holdTimeout
  /\ s.audioQueue = <<>> /\ s._heldAudioChunks = <<>>
  /\ s._heldTranscriptText = <<>>
  /\ ~s.isPlaying /\ ~s.isSpeaking
  /\ s.sounding = {} /\ s.playbackContext = "null" /\ s.resumeWaiters = 0

\* The states a handler running from the current state is in when it calls
\* back into the host: _releaseHeldAudio at onTranscript, before it queues
\* the held chunks, and the trigger branch of _onUserTranscriptReceived
\* inside flushAudioQueue, before it calls sendVisionQuery.
AtCallback ==
  IF ~_holdingForTranscript THEN {} ELSE
  { [St EXCEPT !._holdingForTranscript = FALSE, !._holdTimeout = FALSE,
               !._heldAudioChunks = <<>>, !._heldTranscriptText = <<>>,
               !.isSpeaking = @ \/ _heldAudioChunks # <<>>,
               !.currentTranscript =
                  IF _heldTranscriptText # <<>> THEN _heldTranscriptText
                  ELSE @],
    closeContext(
      [St EXCEPT !._holdingForTranscript = FALSE, !._holdTimeout = FALSE,
                 !._heldAudioChunks = <<>>, !._heldTranscriptText = <<>>,
                 !.currentTranscript = <<>>, !.audioQueue = <<>>,
                 !.isPlaying = FALSE, !.visionSuppressing = TRUE]) }

PendingTimers(s) ==
  (IF s._holdTimeout THEN {"hold"} ELSE {})
    \cup { "warmup" : i \in { j \in 1..Len(s.vq) : s.vq[j].pc = "warmup" } }

\* C14: flushAudioQueue() followed at once by disconnect(), in any
\* reachable state, leaves no timer of the client pending.
C14_FlushThenDisconnectLeavesNoTimer ==
  \A s \in {disconnect(flushAudioQueue(St))} : PendingTimers(s) = {}

\* The playback chains that are active: playNextAudio calls suspended at
\* resume(), and started sources whose onended will call playNextAudio.
ActiveChains == resumeWaiters + closedWaiters + Cardinality(sounding)

\* C16: at most one chunk sounds, at most one playback chain is active,
\* and isPlaying is set for as long as a chunk sounds (so that a chunk
\* queued meanwhile waits for the onended of the one that sounds).
C16_PlaybackSequential ==
  /\ Cardinality(sounding) <= 1
  /\ ActiveChains <= 1
  /\ sounding # {} => isPlaying

\* The moves of the connection state machine: disconnected -> connecting
\* -> connected <-> speaking, and any state -> disconnected.
StatusMove(a, b) ==
  \/ b = "disconnected"
  \/ a = "disconnected" /\ b = "connecting"
  \/ a = "connecting" /\ b = "connected"
  \/ a = "connected" /\ b = "speaking"
  \/ a = "speaking" /\ b = "connected"

\* C18: the status shown is one of the four states, it changes only by a
\* move of the state machine, and it is connected or speaking only while
\* the client's connection state is connected.
C18_StatusFollowsConnection ==
  [][/\ status' \in {"disconnected", "connecting", "connected", "speaking"}
     /\ status' # status => StatusMove(status, status')
     /\ status' \in {"connected", "speaking"} => state' = "connected"]_vars

\* C20: a malformed message changes nothing: in every reachable state the
\* client after handling it is the client before it.
C20_MalformedMessageDropped ==
  \A kind \in MalformedKinds : onMalformedMessage(St, kind) = St

\* The capture of the client s is stopped: no field refers to a capture
\* resource and no microphone stream is live.
CaptureStopped(s) == s.capture = NoCapture /\ s.liveStreams = 0

\* C19: stopAudioCapture(), in any reachable state, leaves capture stopped,
\* and a second call changes nothing.
C19_StopReleasesMicrophone ==
  \A s \in {stopAudioCapture(St)} :
    CaptureStopped(s) /\ stopAudioCapture(s) = s

\* Playback of the client s is stopped and its buffers are empty.
PlaybackStopped(s) ==
  /\ s.audioQueue = <<>> /\ ~s.isPlaying /\ ~s.isSpeaking
  /\ s.sounding = {} /\ s.playbackContext = "null" /\ s.resumeWaiters = 0
  /\ s._heldAudioChunks = <<>> /\ s._heldTranscriptText = <<>>
  /\ ~s._holdingForTranscript /\ ~s._holdTimeout

\* C15: a transport error on the client's socket, in any reachable state,
\* leaves the client disconnected, with capture stopped, playback stopped
\* and the buffers empty.
C15_TransportErrorTearsDown ==
  ws \in {"CONNECTING", "OPEN"} =>
    \A s \in {onclose(St)} :
      /\ s.state = "disconnected" /\ s.status = "disconnected"
      /\ CaptureStopped(s)
      /\ PlaybackStopped(s)

\* The buffer has samples and all of them are zero.
Silent(buffer) == Len(buffer) > 0 /\ \A i \in 1..Len(buffer) : buffer[i] = 0

C21_VisionResponseReleasesCamera ==
  (ws = "OPEN" /\ unanswered > 0) =>
    \A s \in {onVisionResponse(St)} :
      /\ ~s.visionSuppressing /\ ~s.visionPending
      /\ ~s.videoStream /\ ~s.videoElement /\ ~s.visionEnabled
      /\ s.liveCameras = 0

\* The arbiter of the client s: the holding flag, the held buffer, the
\* hold timer, and the vision flags.
ArbiterOf(s) ==
  << s._holdingForTranscript, s._heldAudioChunks, s._heldTranscriptText,
     s._holdTimeout, s.holdTimers, s.visionSuppressing, s.visionPending >>

\* C22: speech_started, handled in any reachable state, leaves the arbiter
\* as it was; when the assistant was speaking or audio was queued or
\* playing, it empties the playback queue, stops playback and clears the
\* transcript accumulator.
C22_BargeInLeavesArbiter ==
  \A s \in {onSpeechStarted(St)} :
    /\ ArbiterOf(s) = ArbiterOf(St)
    /\ (isSpeaking \/ isPlaying \/ audioQueue # <<>>) =>
          /\ s.audioQueue = <<>> /\ ~s.isPlaying /\ s.sounding = {}
          /\ s.playbackContext = "null" /\ s.currentTranscript = <<>>

\* C22: speech_started has flushed playback while the arbiter was holding
\* a chunk with its timer armed, and the arbiter still holds it.
C22_Witness ==
  /\ last.op = "speech_started" /\ last.active
  /\ _holdingForTranscript /\ _heldAudioChunks # <<>> /\ _holdTimeout

\* C23: at most one safety timer is pending, it is the one _holdTimeout
\* refers to, and one is pending only while the arbiter is holding (so every
\* move out of holding has cancelled it); the callback of a timer that
\* fires when the arbiter is not holding changes nothing.
C23_OneTimerOnlyWhileHolding ==
  /\ holdTimers <= 1
  /\ holdTimers = (IF _holdTimeout THEN 1 ELSE 0)
  /\ holdTimers > 0 => _holdingForTranscript
  /\ ~_holdingForTranscript =>
        \A fresh \in FreshContext : onHoldTimeout(St, fresh) = St

\* C23: a user transcript with a trigger has ended a hold, and no timer is
\* pending.
C23_Witness ==
  /\ DiscardedByTrigger /\ ~_holdingForTranscript
  /\ holdTimers = 0 /\ ~_holdTimeout

\* C24: speech_stopped, handled while the arbiter is holding, leaves it
\* holding with one timer armed and with the held chunks and the held
\* transcript text it had.
C24_SecondSpeechStoppedKeepsBuffer ==
  _holdingForTranscript =>
    \A s \in {onSpeechStopped(St)} :
      /\ s._holdingForTranscript /\ s._holdTimeout /\ s.holdTimers = 1
      /\ s._heldAudioChunks = _heldAudioChunks
      /\ s._heldTranscriptText = _heldTranscriptText

\* C25: response.audio_transcript.done outside a hold leaves the
\* accumulator empty; and when done arrives during a hold, the hold is
\* then released and the first delta of the next utterance arrives, the
\* accumulator holds that delta only.
C25_AccumulatorOneUtterance ==
  /\ ~_holdingForTranscript =>
        \A s \in {onTranscriptDone(St)} : s.currentTranscript = <<>>
  /\ (_holdingForTranscript /\ ~visionSuppressing) =>
        \A s \in {onTranscriptDelta(
                    _releaseHeldAudio(onTranscriptDone(St), "running"),
                    deltas + 1)} :
          s.currentTranscript = << deltas + 1 >>

\* C26: when a delta arrives during a hold and the hold is then released,
\* the transcript consumer is called with the deltas of the hold in
\* arrival order, the accumulator holds them, and the held buffer is empty
\* afterwards; also when speech_stopped arrived again before that delta.
C26_ReleaseReplaysHoldText ==
  (_holdingForTranscript /\ ~visionSuppressing) =>
    \A again \in BOOLEAN :
      LET d  == deltas + 1
          s1 == IF again THEN onSpeechStopped(St) ELSE St
          s2 == onTranscriptDelta(s1, d)
          r  == _releaseHeldAudio([s2 EXCEPT !.last = Other], "running")
      IN  /\ r.last.said
          /\ r.currentTranscript = _heldTranscriptText \o << d >>
          /\ r._heldTranscriptText = <<>> /\ r._heldAudioChunks = <<>>

\* C27: while the arbiter is not holding, the held chunk list and the held
\* transcript text are empty.
C27_HeldBufferOnlyWhileHolding ==
  ~_holdingForTranscript =>
    _heldAudioChunks = <<>> /\ _heldTranscriptText = <<>>

\* C28: response.created and response.done, handled while the arbiter is
\* holding or suppressing, change nothing (the speaking flag and the
\* status shown stay); otherwise response.created sets the flag and shows
\* speaking, and response.done clears it and shows connected.
C28_ResponseEventsGated ==
  \A c \in {onResponseCreated(St)}, d \in {onResponseDone(St)} :
    IF _holdingForTranscript \/ visionSuppressing
    THEN c = St /\ d = St
    ELSE /\ c.isSpeaking /\ c.status = "speaking"
         /\ ~d.isSpeaking /\ d.status = "connected"

\* C28: the socket is open, the assistant is not speaking, and the arbiter
\* holds a chunk: the events are gated here.
C28_Witness ==
  /\ ws = "OPEN" /\ ~isSpeaking
  /\ _holdingForTranscript /\ _heldAudioChunks # <<>>

\* setState(st), called on the client s, notifies a state that is the
\* state s is in already.
NotifiesNoChange(s, st) == s.state = st

\* C29: the socket handlers that call setState notify a change of state:
\* onopen of the connecting socket, onclose of the client's socket, and
\* onclose of a socket that disconnect() closed.
C29_OneNotificationPerTransition ==
  /\ ws = "CONNECTING" => ~NotifiesNoChange(St, "connected")
  /\ ws \in {"CONNECTING", "OPEN"} => ~NotifiesNoChange(St, "disconnected")
  /\ closePending => ~NotifiesNoChange(St, "disconnected")

\* C30: when a sendVisionQuery call has settled with false and no other
\* query is under way, and after vision.response, no camera stream is
\* held; and at most one camera stream has running tracks at any time.
C30_CameraReleased ==
  /\ (last.vr = "false" /\ vq = <<>> /\ unanswered = 0) =>
        ~videoStream /\ ~visionEnabled /\ liveCameras = 0
  /\ (ws = "OPEN" /\ unanswered > 0) =>
        \A s \in {onVisionResponse(St)} : ~s.videoStream /\ ~s.visionEnabled
  /\ liveCameras <= 1

\* Number.isNaN.
isNaN(x) == ToString(x) = ToString("NaN")

\* C32: what analyzeVowelFromAudio returned has a vowel among a, e, i, o,
\* u and null, and an intensity that is a number from 0 to 1.
C32_AnalyzerRange ==
  calls >= 1 =>
    /\ vowelInfo.vowel \in {"a", "e", "i", "o", "u", "null"}
    /\ ~isNaN(vowelInfo.intensity)
    /\ vowelInfo.intensity \in 0..10000

\* What a playback step from s0 to s reported: every chunk it started was
\* reported to the lip-sync callback, and when it left the queue empty and
\* playback idle its last report is the zero signal.
Reported(s0, s) ==
  LET lip == s.last.lip
  IN  /\ \A c \in s.sounding \ s0.sounding : c \in Range(lip)
      /\ (s.audioQueue = <<>> /\ ~s.isPlaying) =>
            lip # <<>> /\ lip[Len(lip)] = 0

\* C31: in any reachable state, each way playback goes on (a source ends,
\* a source of a closed context ends, an awaited resume() settles, a chunk
\* is queued) reports every chunk it starts to the lip-sync callback, and
\* reports the zero signal last when it finds the queue empty.
C31_LipSyncFollowsPlayback ==
  /\ \A c \in sounding :
       \A s0 \in {[St EXCEPT !.last = Other, !.sounding = @ \ {c}]} :
         Reported(s0, playNextAudio(s0, "running"))
  /\ staleSources > 0 =>
       \A fresh \in FreshContext :
         \A s0 \in {[St EXCEPT !.last = Other, !.staleSources = @ - 1]} :
           Reported(s0, playNextAudio(s0, fresh))
  /\ resumeWaiters > 0 =>
       \A s0 \in {[St EXCEPT !.last = Other, !.playbackContext = "running",
                             !.resumeWaiters = @ - 1]} :
         Reported(s0, startSource(s0, "running"))
  /\ closedWaiters > 0 =>
       \A fresh \in FreshContext :
         \A s0 \in {[St EXCEPT !.last = Other, !.closedWaiters = @ - 1]} :
           Reported(s0, startSource(s0, fresh))
  /\ arrived < MaxChunks =>
       \A fresh \in FreshContext :
         \A s0 \in {[St EXCEPT !.last = Other]} :
           Reported(s0, queueAudioPlayback(s0, arrived + 1, fresh))

\* C31: a chunk was queued and playback has run out on a live context: the
\* last source ended and found the queue empty.
C31_Witness ==
  /\ hi > 0 /\ audioQueue = <<>> /\ sounding = {} /\ ~isPlaying
  /\ playbackContext = "running" /\ resumeWaiters = 0

\* The page's onTranscript for a final user transcript shows the vision
\* indicator when the client s has a query pending.
showsVisionIndicator(s) == s.visionPending

\* C33: when a user transcript with a trigger arrives during a hold, the
\* page's onTranscript callback for it, which runs before the arbiter
\* handles the transcript, shows the vision indicator.
C33_IndicatorShownForTriggeredQuery ==
  \A t \in TranscriptIds :
    (ws = "OPEN" /\ _holdingForTranscript /\ hasTrigger[t]) =>
      showsVisionIndicator(St)

\* C34: a user transcript that arrives when the arbiter is not holding,
\* with or without a trigger, changes nothing: no sendVisionQuery call, no
\* flush, no suppressing.
C34_QueryOnlyFromHold ==
  ~_holdingForTranscript =>
    \A t \in TranscriptIds, frame \in FrameOutcomes, fresh \in FreshContext :
      onUserTranscript(St, t, frame, fresh) = St

\* C34: the timer has released a hold, the socket is open and the arbiter
\* is not holding: a user transcript that arrives now comes too late.
C34_Witness ==
  ReleasedByTimer /\ ws = "OPEN" /\ ~_holdingForTranscript

\* C35: when disconnect() is followed by connect() and the close event of
\* the abandoned socket is delivered then, the close event changes nothing
\* of the client.
C35_LateCloseSparesNewConnection ==
  (closePending /\ ws \in {"null", "CLOSED"}) =>
    \A s \in {[connect(St) EXCEPT !.closePending = FALSE]} : onclose(s) = s

\* C36: connect() called while the client's socket is connecting constructs
\* no second socket.
C36_OneLiveSocket ==
  ws = "CONNECTING" => \A s \in {connect(St)} : s.connects = connects

\* Every source of the client s ends in turn, and each onended plays on,
\* until none sounds.
RECURSIVE playOut(_)
playOut(s) ==
  IF s.sounding = {} THEN s
  ELSE LET c == CHOOSE x \in s.sounding : TRUE
       IN  playOut(playNextAudio([s EXCEPT !.sounding = @ \ {c}], "running"))

\* C37: when response.done arrives while the arbiter holds chunks, the
\* hold is released and the audio has played out (queue empty, playback
\* idle), the speaking flag is clear.
C37_SpeakingClearedAfterPlayback ==
  (_holdingForTranscript /\ ~visionSuppressing /\ _heldAudioChunks # <<>>) =>
    \A r \in {playOut(_releaseHeldAudio(onResponseDone(St), "running"))} :
      (r.audioQueue = <<>> /\ ~r.isPlaying) => ~r.isSpeaking

\* The queue q without the chunks at its head that cannot be played.
RECURSIVE DropBad(_, _)
DropBad(q, bad) ==
  IF q = <<>> \/ Head(q) \notin bad THEN q ELSE DropBad(Tail(q), bad)

\* A playback step from s0 to s on a running context skipped the chunks
\* that cannot be played: the first playable chunk of the queue sounds and
\* those after it are queued, or the queue is empty and playback idle.
Skipped(s0, s, bad) ==
  LET q == DropBad(s0.audioQueue, bad)
  IN  IF q = <<>>
      THEN s.audioQueue = <<>> /\ ~s.isPlaying /\ s.sounding = s0.sounding
      ELSE /\ s.sounding = s0.sounding \cup {Head(q)}
           /\ s.audioQueue = Tail(q) /\ s.isPlaying

\* C38: whichever queued chunks cannot be played, the playback step after
\* resume() and the one after a source ends skip them, play the next
\* playable chunk, and leave playback idle when none is left.
C38_BadChunkSkipped ==
  \A bad \in SUBSET Range(audioQueue) :
    /\ resumeWaiters > 0 =>
         \A s0 \in {[St EXCEPT !.playbackContext = "running",
                               !.resumeWaiters = @ - 1]} :
           Skipped(s0, startSourceOf(s0, "running", bad), bad)
    /\ playbackContext = "running" =>
         \A c \in sounding :
           \A s0 \in {[St EXCEPT !.sounding = @ \ {c}]} :
             Skipped(s0, playNextAudioOf(s0, "running", bad), bad)

\* C38: two chunks are queued behind an awaited resume().
C38_Witness ==
  resumeWaiters > 0 /\ Len(audioQueue) = MaxChunks

\* C39: while the playback queue is not empty, isPlaying is set and a
\* playback chain of the live context is under way: a playNextAudio call
\* awaits resume(), or a source sounds whose onended will call it.
C39_QueuedChunkHasChain ==
  audioQueue # <<>> =>
    isPlaying /\ (resumeWaiters > 0 \/ sounding # {})

\* C39: a chunk waits in the queue while another sounds.
C39_Witness ==
  audioQueue # <<>> /\ sounding # {} /\ isPlaying

\* C40: once the client is disconnected by disconnect() and no
\* sendVisionQuery call is suspended any more, no vision.query is
\* unanswered, no camera stream is held, the arbiter is idle, and the page
\* shows disconnected and not speaking.
C40_DisconnectCancelsVisionQuery ==
  (ws = "null" /\ state = "disconnected" /\ vq = <<>>) =>
    /\ unanswered = 0
    /\ ~videoStream /\ ~visionEnabled /\ liveCameras = 0
    /\ ~visionSuppressing /\ ~visionPending
    /\ ~isSpeaking /\ status = "disconnected"

====
